---- MODULE Spec2Model ----
(***************************************************************************)
(* Model of the PR Firm pipeline (src/flow.py, src/nodes.py): the flow     *)
(* engine walking the node graph built by create_pr_flow, the per-platform *)
(* guidelines batch, and the style editor / style compliance revision loop *)
(* over the shared store; and of the rate limiter and circuit breaker      *)
(* around the backend call (src/utils/call_llm.py) under concurrent        *)
(* callers.                                                                *)
(***************************************************************************)
EXTENDS Integers, Sequences, FiniteSets, TLC

\* ------------------------------------------------------------------ bounds
\* Longest requested platform list the caller supplies.
MaxPlatforms == 2
\* Threads calling the resilience wrapper at the same time.
MaxCallers == 2
\* Last reading of the clock, in seconds since the wrapper was loaded.
MaxTime == 5
\* SimpleRateLimiter(max_calls, period_s) of the instance checked.
MaxCalls == 2
PeriodS == 2
\* SimpleCircuitBreaker(failure_threshold, open_duration_s) of the instance checked.
FailureThreshold == 2
OpenDurationS == 2
\* Longest subreddit name or title a caller passes in, in characters.
MaxLen == 4
\* Calls of initialize_shared_store on one record.
MaxRuns == 2

\* ------------------------------------------------------- program constants
\* nodes.py:409  status = "revise" if new_rev < 5 else "max_revisions"
THRESHOLD == 5
\* nodes.py:360  while attempt < 2 (candidates tried per piece by the editor)
EditorAttempts == 2

None == "None"

\* ------------------------------------------------------------ platform names
\* Names the router has an edge for (flow.py:53-59).
RouterPlatforms == {"email", "instagram", "twitter", "x", "reddit", "linkedin", "blog"}
\* Names the caller requests here: the wired names and a name without a
\* wired guidelines node.
RequestablePlatforms == RouterPlatforms \cup {"tiktok"}

\* task_requirements.platforms default (nodes.py:64-65).
DefaultPlatforms == <<"email", "linkedin">>

\* ------------------------------------------------------------------- graph
GuidelinesNodes == {"EmailGuidelinesNode", "InstagramGuidelinesNode",
                    "TwitterGuidelinesNode", "RedditGuidelinesNode",
                    "LinkedInGuidelinesNode", "BlogGuidelinesNode"}

\* Variant: LinkedInGuidelinesNode left with the platform_name of the class
\* it was copied from.
platform_name_CopyPaste(n) ==
    CASE n = "EmailGuidelinesNode"     -> "email"
      [] n = "InstagramGuidelinesNode" -> "instagram"
      [] n = "TwitterGuidelinesNode"   -> "twitter"
      [] n = "RedditGuidelinesNode"    -> "reddit"
      [] n = "LinkedInGuidelinesNode"  -> "email"
      [] n = "BlogGuidelinesNode"      -> "blog"

\* platform_name class attribute of each guidelines node (nodes.py:244-265).
platform_name(n) ==
    CASE n = "EmailGuidelinesNode"     -> "email"
      [] n = "InstagramGuidelinesNode" -> "instagram"
      [] n = "TwitterGuidelinesNode"   -> "twitter"
      [] n = "RedditGuidelinesNode"    -> "reddit"
      [] n = "LinkedInGuidelinesNode"  -> "linkedin"
      [] n = "BlogGuidelinesNode"      -> "blog"

\* Edges of the guidelines sub-flow: router - "<platform>" >> node (flow.py:53-59).
RouterSuccessors ==
    [a \in RouterPlatforms |->
        CASE a = "email"     -> "EmailGuidelinesNode"
          [] a = "instagram" -> "InstagramGuidelinesNode"
          [] a = "twitter"   -> "TwitterGuidelinesNode"
          [] a = "x"         -> "TwitterGuidelinesNode"
          [] a = "reddit"    -> "RedditGuidelinesNode"
          [] a = "linkedin"  -> "LinkedInGuidelinesNode"
          [] a = "blog"      -> "BlogGuidelinesNode"]

Default(n) == [a \in {"default"} |-> n]
NoEdges == [a \in {} |-> None]

TopNodes == {"EngagementManagerNode", "BrandBibleIngestNode", "VoiceAlignmentNode",
             "FormatGuidelinesBatch", "ContentCraftsmanNode", "StyleEditorNode",
             "StyleComplianceNode", "EditCycleReportNode", "FactValidatorNode",
             "BrandGuardianNode", "AuthenticityAuditorNode", "AgencyDirectorNode"}

\* Variant: the max_revisions edge is not wired.
StyleComplianceSuccessors_NoEscalation ==
    [a \in {"revise", "pass"} |->
        CASE a = "revise" -> "StyleEditorNode"
          [] a = "pass"   -> "FactValidatorNode"]

\* Variant: the revise and max_revisions edges wired to each other's target.
StyleComplianceSuccessors_Swapped ==
    [a \in {"revise", "max_revisions", "pass"} |->
        CASE a = "revise"        -> "EditCycleReportNode"
          [] a = "max_revisions" -> "StyleEditorNode"
          [] a = "pass"          -> "FactValidatorNode"]

\* Wiring of create_pr_flow (flow.py:74-83).
StyleComplianceSuccessors ==
    [a \in {"revise", "max_revisions", "pass"} |->
        CASE a = "revise"        -> "StyleEditorNode"
          [] a = "max_revisions" -> "EditCycleReportNode"
          [] a = "pass"          -> "FactValidatorNode"]

Successors(n) ==
    CASE n = "EngagementManagerNode"   -> Default("BrandBibleIngestNode")
      [] n = "BrandBibleIngestNode"    -> Default("VoiceAlignmentNode")
      [] n = "VoiceAlignmentNode"      -> Default("FormatGuidelinesBatch")
      [] n = "FormatGuidelinesBatch"   -> Default("ContentCraftsmanNode")
      [] n = "ContentCraftsmanNode"    -> Default("StyleEditorNode")
      [] n = "StyleEditorNode"         -> Default("StyleComplianceNode")
      [] n = "StyleComplianceNode"     -> StyleComplianceSuccessors
      [] n = "EditCycleReportNode"     -> Default("FactValidatorNode")
      [] n = "FactValidatorNode"       -> Default("BrandGuardianNode")
      [] n = "BrandGuardianNode"       -> Default("AuthenticityAuditorNode")
      [] n = "AuthenticityAuditorNode" -> Default("AgencyDirectorNode")
      [] n = "AgencyDirectorNode"      -> NoEdges
      [] n = "FormatGuidelinesRouter"  -> RouterSuccessors
      [] n \in GuidelinesNodes         -> NoEdges

\* Edge lookup of the flow engine: the edge for the action, else the default
\* edge, else no next node (the flow ends).
get_next_node(n, action) ==
    LET succ == Successors(n) IN
    IF action \in DOMAIN succ THEN succ[action]
    ELSE IF "default" \in DOMAIN succ THEN succ["default"]
    ELSE None

\* ------------------------------------------------------------------- texts
\* A draft is abstracted to the patterns check_style_violations looks for:
\* an em dash, a "not X but Y" contrast rewrite_with_constraints can rephrase
\* (X without , or ;), one it cannot (X contains , or ;), a soft fingerprint.
Texts == [em_dash : BOOLEAN, contrast_plain : BOOLEAN,
          contrast_punct : BOOLEAN, soft : BOOLEAN]

\* utils/rewrite_with_constraints.py
rewrite_with_constraints(t) ==
    [t EXCEPT !.em_dash = FALSE, !.contrast_plain = FALSE]

Hard(type) == [type |-> type, severity |-> "hard"]
Soft(type) == [type |-> type, severity |-> "soft"]

\* Variant: only the hard patterns are reported.
check_style_violations_HardOnly(t) ==
    LET v == (IF t.em_dash THEN <<Hard("em_dash")>> ELSE <<>>)
             \o (IF t.contrast_plain \/ t.contrast_punct
                   THEN <<Hard("rhetorical_contrast")>> ELSE <<>>)
    IN [violations |-> v]

\* utils/check_style_violations.py: hard patterns first, then soft ones.
check_style_violations(t) ==
    LET v == (IF t.em_dash THEN <<Hard("em_dash")>> ELSE <<>>)
             \o (IF t.contrast_plain \/ t.contrast_punct
                   THEN <<Hard("rhetorical_contrast")>> ELSE <<>>)
             \o (IF t.soft THEN <<Soft("weasel_words")>> ELSE <<>>)
    IN [violations |-> v]

\* ------------------------------------------------------------------- state
VARIABLES
    task_requirements,   \* [present, platforms]: shared["task_requirements"]
    platform_guidelines, \* shared["platform_guidelines"]: key -> guidelines
    guideline_keys,      \* insertion order of the keys of platform_guidelines
    content_pieces,      \* shared["content_pieces"]: key -> draft text
    style_compliance,    \* shared["style_compliance"]: key -> report
    workflow_state,      \* shared["workflow_state"]
    final_campaign,      \* shared["final_campaign"]
    curr,                \* node the flow engine runs next (None: flow ended)
    last_action,         \* action returned by the node that ran last
    last_node,           \* node that ran last
    status,              \* "running" | "done" | "failed"
    batch_active,        \* FormatGuidelinesBatch is iterating
    batch_queue,         \* parameter sets not yet started
    batch_index,         \* number of the current iteration (1-based)
    params,              \* platform bound to the current iteration
    inner_curr,          \* node the sub-flow runs next (None: between iterations)
    guideline_writes,    \* log of writes to platform_guidelines
    compliance_log,      \* actions returned by the StyleComplianceNode runs
    last_check,          \* workflow_state on entry to the latest compliance check
    violation_checks,    \* number of compliance checks whose drafts had a violation
    attempts,            \* exec attempts made by the top-level node that ran last
    now,                 \* time.time(), in whole seconds
    rl_window_start,     \* _rate_limiter._window_start
    rl_count,            \* _rate_limiter._count
    rl_accepts,          \* calls accepted since _window_start was last assigned
    cb_state,            \* _circuit_breaker._state
    cb_failures,         \* _circuit_breaker._failures
    cb_opened_at,        \* _circuit_breaker._opened_at
    consecutive_failures,\* failures recorded since the last recorded success
    calls,               \* per thread: the call_llm invocation it is in or left last
    shared,              \* the record initialize_shared_store is called on
    initial_shared,      \* that record as the caller passed it
    shared_once,         \* that record after the first call
    presets,             \* the presets file: category -> name -> content
    runs,                \* calls of initialize_shared_store made
    streams              \* Stream objects created so far

vars == <<task_requirements, platform_guidelines, guideline_keys, content_pieces,
          style_compliance, workflow_state, final_campaign, curr, last_action,
          last_node, status, batch_active, batch_queue, batch_index, params,
          inner_curr, guideline_writes, compliance_log, last_check, violation_checks,
          attempts, now, rl_window_start, rl_count, rl_accepts, cb_state,
          cb_failures, cb_opened_at, consecutive_failures, calls,
          shared, initial_shared, shared_once, presets, runs, streams>>

flowVars == <<task_requirements, platform_guidelines, guideline_keys, content_pieces,
              style_compliance, workflow_state, final_campaign, curr, last_action,
              last_node, status, batch_active, batch_queue, batch_index, params,
              inner_curr, guideline_writes, compliance_log, last_check,
              violation_checks, attempts>>
wrapperVars == <<now, rl_window_start, rl_count, rl_accepts, cb_state, cb_failures,
                 cb_opened_at, consecutive_failures, calls>>

storeVars == <<shared, initial_shared, shared_once, presets, runs, streams>>

sharedVars == <<task_requirements, platform_guidelines, guideline_keys,
                content_pieces, style_compliance, workflow_state, final_campaign>>
batchVars == <<batch_active, batch_queue, batch_index, params, inner_curr,
               guideline_writes>>

EmptyMap == [k \in {} |-> None]

NoReport == [present |-> FALSE, platform |-> "n/a", checks |-> 0, issues |-> 0]

NoCheck == [entry_rev |-> 0, entry_manual |-> FALSE]

RECURSIVE SeqSum(_)
SeqSum(s) == IF s = <<>> THEN 0 ELSE Head(s) + SeqSum(Tail(s))

Distinct(s) == \A i, j \in 1..Len(s) : i # j => s[i] # s[j]
Range(s) == {s[i] : i \in 1..Len(s)}

PlatformLists ==
    {s \in UNION {[1..n -> RequestablePlatforms] : n \in 0..MaxPlatforms} : Distinct(s)}

\* The caller's shared store: main() passes {} (main.py:19), the UI passes
\* task_requirements (main.py:56-63); the other fields hold the defaults
\* EngagementManagerNode.post seeds (nodes.py:101-115).
FlowInit ==
    /\ task_requirements \in
          {[present |-> FALSE, platforms |-> <<>>]}
          \cup {[present |-> TRUE, platforms |-> s] : s \in PlatformLists}
    /\ platform_guidelines = EmptyMap
    /\ guideline_keys = <<>>
    /\ content_pieces = EmptyMap
    /\ style_compliance = EmptyMap
    /\ workflow_state = [current_stage |-> "engagement",
                         completed_stages |-> <<>>,
                         revision_count |-> 0,
                         manual_review_required |-> FALSE]
    /\ violation_checks = 0
    /\ final_campaign = [approved_content |-> EmptyMap,
                         guidelines |-> EmptyMap,
                         edit_cycle_report |-> NoReport,
                         fact_validation |-> {},
                         brand_alignment |-> {},
                         authenticity |-> {},
                         packaged |-> FALSE]
    /\ curr = "EngagementManagerNode"
    /\ last_action = None
    /\ last_node = None
    /\ status = "running"
    /\ batch_active = FALSE
    /\ batch_queue = <<>>
    /\ batch_index = 0
    /\ params = None
    /\ inner_curr = None
    /\ guideline_writes = <<>>
    /\ compliance_log = <<>>
    /\ last_check = NoCheck
    /\ attempts = 0


\* ------------------------------------------------------------ flow engine
\* Variant: every node is built with the library's default of one attempt.
MaxRetries_Default(n) == 1

\* Exec attempts a node is built with: flow.py:65-66 passes max_retries=2 to
\* the two drafting nodes, every other node keeps the default of 1.
MaxRetries(n) ==
    IF n \in {"ContentCraftsmanNode", "StyleEditorNode"} THEN 2 ELSE 1

\* One step of the engine's loop for top-level node n returning action a:
\* record the action and move to the node the edge table gives.
Advance(n, a) ==
    LET nxt == get_next_node(n, a) IN
    /\ curr' = nxt
    /\ last_action' = a
    /\ last_node' = n
    /\ status' = IF nxt = None THEN "done" ELSE "running"
    /\ attempts' \in 1..MaxRetries(n)

\* exec raised on every attempt: the exception leaves the flow, post is not run.
Fail(n) ==
    /\ status' = "failed"
    /\ attempts' = MaxRetries(n)
    /\ UNCHANGED <<curr, last_action, last_node>>

Running(n) == status = "running" /\ curr = n /\ ~batch_active

\* Variant: completed_stages is assigned instead of appended to.
StageDone_Replace(ws, stage, next) ==
    [ws EXCEPT !.current_stage = next,
               !.completed_stages = <<stage>>]

\* shared["workflow_state"]["current_stage"] = next; completed_stages.append(stage)
StageDone(ws, stage, next) ==
    [ws EXCEPT !.current_stage = next,
               !.completed_stages = Append(@, stage)]

\* ------------------------------------------------------------------ stages
\* EngagementManagerNode (nodes.py:22-163): exec calls the backend only when
\* some platform has an "auto" intent; post seeds the defaults.
EngagementManagerNode ==
    /\ Running("EngagementManagerNode")
    /\ \E auto \in BOOLEAN, ok \in BOOLEAN :
          IF auto /\ ~ok
          THEN /\ Fail("EngagementManagerNode")
               /\ UNCHANGED sharedVars
          ELSE /\ task_requirements' =
                     IF task_requirements.present THEN task_requirements
                     ELSE [present |-> TRUE, platforms |-> DefaultPlatforms]
               /\ workflow_state' = StageDone(workflow_state, "engagement",
                                              "brand_bible_ingest")
               /\ Advance("EngagementManagerNode", "default")
               /\ UNCHANGED <<platform_guidelines, guideline_keys, content_pieces,
                              style_compliance, final_campaign>>
    /\ UNCHANGED <<batchVars, compliance_log, last_check, violation_checks, wrapperVars, storeVars>>

\* BrandBibleIngestNode (nodes.py:165-182)
BrandBibleIngestNode ==
    /\ Running("BrandBibleIngestNode")
    /\ workflow_state' = StageDone(workflow_state, "brand_bible_ingest",
                                   "voice_alignment")
    /\ Advance("BrandBibleIngestNode", "default")
    /\ UNCHANGED <<task_requirements, platform_guidelines, guideline_keys,
                   content_pieces, style_compliance, final_campaign,
                   batchVars, compliance_log, last_check, violation_checks, wrapperVars, storeVars>>

\* VoiceAlignmentNode (nodes.py:184-206)
VoiceAlignmentNode ==
    /\ Running("VoiceAlignmentNode")
    /\ workflow_state' = StageDone(workflow_state, "voice_alignment", "guidelines")
    /\ Advance("VoiceAlignmentNode", "default")
    /\ UNCHANGED <<task_requirements, platform_guidelines, guideline_keys,
                   content_pieces, style_compliance, final_campaign,
                   batchVars, compliance_log, last_check, violation_checks, wrapperVars, storeVars>>

\* ------------------------------------------------------- guidelines batch
\* FormatGuidelinesBatch.prep (flow.py:24-26): one parameter set per platform.
FormatGuidelinesBatchPrep ==
    /\ Running("FormatGuidelinesBatch")
    /\ batch_active' = TRUE
    /\ batch_queue' = task_requirements.platforms
    /\ batch_index' = 0
    /\ params' = None
    /\ inner_curr' = None
    /\ UNCHANGED <<sharedVars, curr, last_action, last_node, status, attempts,
                   guideline_writes, compliance_log, last_check, violation_checks, wrapperVars, storeVars>>

\* FormatGuidelinesRouter.post (nodes.py:213-216): the action is the bound
\* platform ("default" for an empty name); the names requested here are
\* lower-case already (main.py:58), so lower() leaves them as they are.
FormatGuidelinesRouterPost(p) ==
    IF p = "" THEN "default" ELSE p

\* The batch binds the next parameter set and the sub-flow runs its start
\* node, the router; without an edge for the action the iteration ends.
FormatGuidelinesRouter ==
    /\ status = "running" /\ batch_active
    /\ inner_curr = None /\ batch_queue # <<>>
    /\ LET p == Head(batch_queue)
           nxt == get_next_node("FormatGuidelinesRouter", FormatGuidelinesRouterPost(p))
       IN /\ params' = p
          /\ batch_index' = batch_index + 1
          /\ batch_queue' = Tail(batch_queue)
          /\ inner_curr' = nxt
    /\ UNCHANGED <<sharedVars, curr, last_action, last_node, status, attempts,
                   batch_active, guideline_writes, compliance_log, last_check, violation_checks, wrapperVars, storeVars>>

\* utils/format_platform.py: the guidelines built for a platform name.
build_guidelines(platform) == [platform |-> platform]

\* Variant: every guidelines node records the guidelines stage itself.
GuidelinesNode_AppendsStage ==
    /\ status = "running" /\ batch_active
    /\ inner_curr \in GuidelinesNodes
    /\ LET k == platform_name(inner_curr) IN
          /\ platform_guidelines' = (k :> build_guidelines(k)) @@ platform_guidelines
          /\ guideline_keys' = IF k \in DOMAIN platform_guidelines
                                 THEN guideline_keys
                                 ELSE Append(guideline_keys, k)
          /\ guideline_writes' = Append(guideline_writes,
                 [iteration |-> batch_index, platform |-> params, key |-> k])
    /\ inner_curr' = get_next_node(inner_curr, "default")
    /\ workflow_state' = [workflow_state EXCEPT
                             !.completed_stages = Append(@, "guidelines")]
    /\ UNCHANGED <<task_requirements, content_pieces, style_compliance,
                   final_campaign, curr, last_action, last_node,
                   status, batch_active, batch_queue, batch_index, params, attempts,
                   compliance_log, last_check, violation_checks, wrapperVars, storeVars>>

\* _BaseGuidelinesNode (nodes.py:219-241): writes the entry keyed by the
\* node's own platform_name; the node has no successor, the iteration ends.
GuidelinesNode ==
    /\ status = "running" /\ batch_active
    /\ inner_curr \in GuidelinesNodes
    /\ LET k == platform_name(inner_curr) IN
          /\ platform_guidelines' = (k :> build_guidelines(k)) @@ platform_guidelines
          /\ guideline_keys' = IF k \in DOMAIN platform_guidelines
                                 THEN guideline_keys
                                 ELSE Append(guideline_keys, k)
          /\ guideline_writes' = Append(guideline_writes,
                 [iteration |-> batch_index, platform |-> params, key |-> k])
    /\ inner_curr' = get_next_node(inner_curr, "default")
    /\ UNCHANGED <<task_requirements, content_pieces, style_compliance,
                   workflow_state, final_campaign, curr, last_action, last_node,
                   status, batch_active, batch_queue, batch_index, params, attempts,
                   compliance_log, last_check, violation_checks, wrapperVars, storeVars>>

\* FormatGuidelinesBatch.post (flow.py:28-34), after the last iteration.
FormatGuidelinesBatchPost ==
    /\ status = "running" /\ batch_active
    /\ inner_curr = None /\ batch_queue = <<>>
    /\ batch_active' = FALSE
    /\ workflow_state' = StageDone(workflow_state, "guidelines", "content_craftsman")
    /\ Advance("FormatGuidelinesBatch", "default")
    /\ UNCHANGED <<task_requirements, platform_guidelines, guideline_keys,
                   content_pieces, style_compliance, final_campaign,
                   batch_queue, batch_index, params, inner_curr,
                   guideline_writes, compliance_log, last_check, violation_checks, wrapperVars, storeVars>>


\* ------------------------------------------------------- content and style
Count(b) == IF b THEN 1 ELSE 0

\* The text contains one of the patterns the style check looks for.
HasPattern(t) == t.em_dash \/ t.contrast_plain \/ t.contrast_punct \/ t.soft

\* Texts the backend returns here: those with at most one of the patterns.
LLMTexts ==
    {t \in Texts : Count(t.em_dash) + Count(t.contrast_plain)
                     + Count(t.contrast_punct) + Count(t.soft) <= 1}

\* ContentCraftsmanNode.exec (nodes.py:279-332): one draft per guidelines
\* entry, passed through rewrite_with_constraints.
ContentCraftsmanExec(guidelines, raw) ==
    [p \in DOMAIN guidelines |-> rewrite_with_constraints(raw[p])]

\* Drafts a stage stores after rewrite_with_constraints.
RewrittenTexts == {rewrite_with_constraints(t) : t \in LLMTexts}

\* ContentCraftsmanNode (nodes.py:268-339)
ContentCraftsmanNode ==
    /\ Running("ContentCraftsmanNode")
    /\ \E failed_attempts \in 0..MaxRetries("ContentCraftsmanNode") :
          IF failed_attempts = MaxRetries("ContentCraftsmanNode") /\ DOMAIN platform_guidelines # {}
          THEN /\ Fail("ContentCraftsmanNode")
               /\ UNCHANGED sharedVars
          ELSE \E raw \in [DOMAIN platform_guidelines -> LLMTexts] :
               /\ content_pieces' =
                     ContentCraftsmanExec(platform_guidelines, raw) @@ content_pieces
               /\ workflow_state' = StageDone(workflow_state, "content_craftsman",
                                              "style_editor")
               /\ Advance("ContentCraftsmanNode", "default")
               /\ attempts' = IF DOMAIN platform_guidelines = {} THEN 1 ELSE failed_attempts + 1
               /\ UNCHANGED <<task_requirements, platform_guidelines, guideline_keys,
                              style_compliance, final_campaign>>
    /\ UNCHANGED <<batchVars, compliance_log, last_check, violation_checks, wrapperVars, storeVars>>

\* The editor's loop for one piece (nodes.py:358-380): each candidate is
\* rewritten and checked; a clean candidate ends the loop, otherwise the
\* last candidate tried is kept.
RECURSIVE EditLoop(_, _, _)
EditLoop(final_text, candidates, attempt) ==
    IF attempt < EditorAttempts /\ attempt < Len(candidates)
    THEN LET candidate == rewrite_with_constraints(candidates[attempt + 1]) IN
         IF check_style_violations(candidate).violations = <<>>
         THEN candidate
         ELSE EditLoop(candidate, candidates, attempt + 1)
    ELSE final_text

\* Texts the editor can end with for a piece.
EditedTexts(base_text) ==
    {EditLoop(base_text, c, 0) : c \in [1..EditorAttempts -> LLMTexts]}

\* StyleEditorNode (nodes.py:342-387)
StyleEditorNode ==
    /\ Running("StyleEditorNode")
    /\ \E failed_attempts \in 0..MaxRetries("StyleEditorNode") :
          IF failed_attempts = MaxRetries("StyleEditorNode") /\ DOMAIN content_pieces # {}
          THEN /\ Fail("StyleEditorNode")
               /\ UNCHANGED sharedVars
          ELSE \E edited \in [DOMAIN content_pieces -> RewrittenTexts] :
               /\ \A p \in DOMAIN content_pieces :
                     edited[p] \in EditedTexts(content_pieces[p])
               /\ content_pieces' = edited @@ content_pieces
               /\ workflow_state' = StageDone(workflow_state, "style_editor",
                                              "style_compliance")
               /\ Advance("StyleEditorNode", "default")
               /\ attempts' = IF DOMAIN content_pieces = {} THEN 1 ELSE failed_attempts + 1
               /\ UNCHANGED <<task_requirements, platform_guidelines, guideline_keys,
                              style_compliance, final_campaign>>
    /\ UNCHANGED <<batchVars, compliance_log, last_check, violation_checks, wrapperVars, storeVars>>

\* Variant: escalation two revisions late (new_rev < 7).
StyleComplianceExec_Late(content, revision_count) ==
    LET reports == [p \in DOMAIN content |-> check_style_violations(content[p])]
        any_viol == \E p \in DOMAIN content : reports[p].violations # <<>>
        new_rev == IF any_viol THEN revision_count + 1 ELSE revision_count
        st == IF any_viol
                THEN (IF new_rev < THRESHOLD + 2 THEN "revise" ELSE "max_revisions")
                ELSE "pass"
    IN [reports |-> reports, status |-> st, revision_count |-> new_rev]

\* Variant: the comparison is new_rev <= 5.
StyleComplianceExec_OffByOne(content, revision_count) ==
    LET reports == [p \in DOMAIN content |-> check_style_violations(content[p])]
        any_viol == \E p \in DOMAIN content : reports[p].violations # <<>>
        new_rev == IF any_viol THEN revision_count + 1 ELSE revision_count
        st == IF any_viol
                THEN (IF new_rev <= THRESHOLD THEN "revise" ELSE "max_revisions")
                ELSE "pass"
    IN [reports |-> reports, status |-> st, revision_count |-> new_rev]

\* Variant: a clean check starts the count again from zero.
StyleComplianceExec_ResetOnPass(content, revision_count) ==
    LET reports == [p \in DOMAIN content |-> check_style_violations(content[p])]
        any_viol == \E p \in DOMAIN content : reports[p].violations # <<>>
        new_rev == IF any_viol THEN revision_count + 1 ELSE 0
        st == IF any_viol
                THEN (IF new_rev < THRESHOLD THEN "revise" ELSE "max_revisions")
                ELSE "pass"
    IN [reports |-> reports, status |-> st, revision_count |-> new_rev]

\* StyleComplianceNode.exec (nodes.py:397-410)
StyleComplianceExec(content, revision_count) ==
    LET reports == [p \in DOMAIN content |-> check_style_violations(content[p])]
        any_viol == \E p \in DOMAIN content : reports[p].violations # <<>>
        new_rev == IF any_viol THEN revision_count + 1 ELSE revision_count
        st == IF any_viol
                THEN (IF new_rev < THRESHOLD THEN "revise" ELSE "max_revisions")
                ELSE "pass"
    IN [reports |-> reports, status |-> st, revision_count |-> new_rev]

\* utils/report_builder.py: the report names the platform, the number of
\* reports and the number of issues flagged.
build_report(reports, keys, platform) ==
    [present |-> TRUE, platform |-> platform, checks |-> Len(keys),
     issues |-> SeqSum([i \in 1..Len(keys) |-> Len(reports[keys[i]].violations)])]

\* Variant: the escalation branch does not set manual_review_required.
StyleCompliancePostState_NoManualFlag(ws, exec_res) ==
    LET ws1 == [ws EXCEPT !.revision_count = exec_res.revision_count]
        ws2 == IF exec_res.status = "max_revisions"
                 THEN [ws1 EXCEPT !.current_stage = "edit_cycle_report"]
               ELSE IF exec_res.status = "revise"
                 THEN [ws1 EXCEPT !.current_stage = "style_editor"]
               ELSE [ws1 EXCEPT !.current_stage = "fact_validator"]
    IN [ws2 EXCEPT !.completed_stages = Append(@, "style_compliance")]

\* Variant: current_stage is set to fact_validator whatever the action.
StyleCompliancePostState_StageFixed(ws, exec_res) ==
    LET ws1 == [ws EXCEPT !.revision_count = exec_res.revision_count,
                          !.current_stage = "fact_validator"]
        ws2 == IF exec_res.status = "max_revisions"
                 THEN [ws1 EXCEPT !.manual_review_required = TRUE]
               ELSE ws1
    IN [ws2 EXCEPT !.completed_stages = Append(@, "style_compliance")]

\* StyleComplianceNode.post (nodes.py:412-432): the shared store after the check.
StyleCompliancePostState(ws, exec_res) ==
    LET ws1 == [ws EXCEPT !.revision_count = exec_res.revision_count]
        ws2 == IF exec_res.status = "max_revisions"
                 THEN [ws1 EXCEPT !.manual_review_required = TRUE,
                                  !.current_stage = "edit_cycle_report"]
               ELSE IF exec_res.status = "revise"
                 THEN [ws1 EXCEPT !.current_stage = "style_editor"]
               ELSE [ws1 EXCEPT !.current_stage = "fact_validator"]
    IN [ws2 EXCEPT !.completed_stages = Append(@, "style_compliance")]

\* StyleComplianceNode (nodes.py:390-432)
StyleComplianceNode ==
    /\ Running("StyleComplianceNode")
    /\ LET exec_res == StyleComplianceExec(content_pieces, workflow_state.revision_count)
           any_p == IF guideline_keys = <<>> THEN "n/a" ELSE Head(guideline_keys)
       IN /\ style_compliance' = exec_res.reports
          /\ workflow_state' = StyleCompliancePostState(workflow_state, exec_res)
          /\ final_campaign' =
                IF exec_res.status = "max_revisions"
                THEN [final_campaign EXCEPT !.edit_cycle_report =
                         build_report(exec_res.reports, guideline_keys, any_p)]
                ELSE final_campaign
          /\ compliance_log' = Append(compliance_log, exec_res.status)
          /\ last_check' =
                [entry_rev |-> workflow_state.revision_count,
                 entry_manual |-> workflow_state.manual_review_required]
          /\ violation_checks' = violation_checks
                + Count(\E p \in DOMAIN content_pieces : HasPattern(content_pieces[p]))
          /\ Advance("StyleComplianceNode", exec_res.status)
    /\ UNCHANGED <<task_requirements, platform_guidelines, guideline_keys,
                   content_pieces, batchVars, wrapperVars, storeVars>>

\* Variant: the report stage clears manual_review_required.
EditCycleReportNode_ClearsFlag ==
    /\ Running("EditCycleReportNode")
    /\ final_campaign' = [final_campaign EXCEPT !.edit_cycle_report =
          IF @.present THEN @
          ELSE [present |-> TRUE, platform |-> "n/a", checks |-> 0, issues |-> 0]]
    /\ workflow_state' =
          [StageDone(workflow_state, "edit_cycle_report", "fact_validator")
              EXCEPT !.manual_review_required = FALSE]
    /\ Advance("EditCycleReportNode", "default")
    /\ UNCHANGED <<task_requirements, platform_guidelines, guideline_keys,
                   content_pieces, style_compliance, batchVars, compliance_log,
                   last_check, violation_checks, wrapperVars, storeVars>>

\* EditCycleReportNode (nodes.py:435-448)
EditCycleReportNode ==
    /\ Running("EditCycleReportNode")
    /\ final_campaign' = [final_campaign EXCEPT !.edit_cycle_report =
          IF @.present THEN @
          ELSE [present |-> TRUE, platform |-> "n/a", checks |-> 0, issues |-> 0]]
    /\ workflow_state' = StageDone(workflow_state, "edit_cycle_report", "fact_validator")
    /\ Advance("EditCycleReportNode", "default")
    /\ UNCHANGED <<task_requirements, platform_guidelines, guideline_keys,
                   content_pieces, style_compliance, batchVars, compliance_log,
                   last_check, violation_checks, wrapperVars, storeVars>>

\* A validator stage: one backend call per content piece, results stored
\* under its own final_campaign field.
Validator(n, stage, next, fc) ==
    /\ Running(n)
    /\ \E ok \in BOOLEAN :
          IF ~ok /\ DOMAIN content_pieces # {}
          THEN /\ Fail(n)
               /\ UNCHANGED sharedVars
          ELSE /\ final_campaign' = fc
               /\ workflow_state' = StageDone(workflow_state, stage, next)
               /\ Advance(n, "default")
               /\ UNCHANGED <<task_requirements, platform_guidelines, guideline_keys,
                              content_pieces, style_compliance>>
    /\ UNCHANGED <<batchVars, compliance_log, last_check, violation_checks, wrapperVars, storeVars>>

\* FactValidatorNode (nodes.py:451-490)
FactValidatorNode ==
    Validator("FactValidatorNode", "fact_validator", "brand_guardian",
              [final_campaign EXCEPT !.fact_validation = DOMAIN content_pieces])

\* BrandGuardianNode (nodes.py:493-537)
BrandGuardianNode ==
    Validator("BrandGuardianNode", "brand_guardian", "authenticity_auditor",
              [final_campaign EXCEPT !.brand_alignment = DOMAIN content_pieces])

\* AuthenticityAuditorNode (nodes.py:540-582)
AuthenticityAuditorNode ==
    Validator("AuthenticityAuditorNode", "authenticity_auditor", "agency_director",
              [final_campaign EXCEPT !.authenticity = DOMAIN content_pieces])

\* AgencyDirectorNode (nodes.py:585-634): one backend call, then packaging.
AgencyDirectorNode ==
    /\ Running("AgencyDirectorNode")
    /\ \E ok \in BOOLEAN :
          IF ~ok
          THEN /\ Fail("AgencyDirectorNode")
               /\ UNCHANGED sharedVars
          ELSE /\ final_campaign' = [final_campaign EXCEPT
                                        !.approved_content = content_pieces,
                                        !.guidelines = platform_guidelines,
                                        !.packaged = TRUE]
               /\ workflow_state' = StageDone(workflow_state, "agency_director", "done")
               /\ Advance("AgencyDirectorNode", "default")
               /\ UNCHANGED <<task_requirements, platform_guidelines, guideline_keys,
                              content_pieces, style_compliance>>
    /\ UNCHANGED <<batchVars, compliance_log, last_check, violation_checks, wrapperVars, storeVars>>

\* ------------------------------------------------------ resilience wrapper
\* utils/call_llm.py. SimpleRateLimiter and SimpleCircuitBreaker take their
\* limits as constructor arguments (call_llm.py:13, 33); the instances checked
\* here are small ones of the same classes.
Callers == 1..MaxCallers

\* A thread's call record: where it is in call_llm (pc), which call_llm it
\* entered (impl), the time it read in allow (now, while it waits for the
\* lock), the backend invocations of this call (invoked), how the call ended
\* (result, raised), which checks admitted it (rate_ok, breaker_ok), the
\* breaker state it was admitted in (admitted_in, while the backend runs),
\* and what the limiter held when it was accepted (rl_seen, rl_reset, until
\* the breaker's check).
NoCall == [pc |-> "idle", impl |-> "none", now |-> 0, invoked |-> 0,
           result |-> "none", raised |-> FALSE, rate_ok |-> FALSE,
           breaker_ok |-> FALSE, admitted_in |-> "none",
           rl_seen |-> 0, rl_reset |-> FALSE]

\* Variant: the comparison admits one call more (_count <= max_calls).
allow_Inclusive(window_start, count, t) ==
    LET reset == t - window_start >= PeriodS
        ws == IF reset THEN t ELSE window_start
        cnt == IF reset THEN 0 ELSE count
    IN IF cnt <= MaxCalls
       THEN [window_start |-> ws, count |-> cnt + 1, reset |-> reset, allowed |-> TRUE]
       ELSE [window_start |-> ws, count |-> cnt, reset |-> reset, allowed |-> FALSE]

\* Variant: a new window starts without clearing the count.
allow_KeepCount(window_start, count, t) ==
    LET reset == t - window_start >= PeriodS
        ws == IF reset THEN t ELSE window_start
    IN IF count < MaxCalls
       THEN [window_start |-> ws, count |-> count + 1, reset |-> reset, allowed |-> TRUE]
       ELSE [window_start |-> ws, count |-> count, reset |-> reset, allowed |-> FALSE]

\* SimpleRateLimiter.allow, the part under the lock (call_llm.py:20-26), for
\* the time t the caller read before taking the lock.
allow(window_start, count, t) ==
    LET reset == t - window_start >= PeriodS
        ws == IF reset THEN t ELSE window_start
        cnt == IF reset THEN 0 ELSE count
    IN IF cnt < MaxCalls
       THEN [window_start |-> ws, count |-> cnt + 1, reset |-> reset, allowed |-> TRUE]
       ELSE [window_start |-> ws, count |-> cnt, reset |-> reset, allowed |-> FALSE]

\* Variant: a success closes the breaker without clearing the count.
record_success_KeepCount(cb) ==
    [cb EXCEPT !.state = "closed"]

\* SimpleCircuitBreaker.record_success (call_llm.py:41-45)
record_success(cb) ==
    [cb EXCEPT !.failures = 0, !.state = "closed"]

\* Variant: the breaker opens one failure late (_failures > failure_threshold).
record_failure_Late(cb, t) ==
    LET f == cb.failures + 1 IN
    IF f > FailureThreshold
    THEN [state |-> "open", failures |-> f, opened_at |-> t]
    ELSE [cb EXCEPT !.failures = f]

\* SimpleCircuitBreaker.record_failure (call_llm.py:47-52) at time t
record_failure(cb, t) ==
    LET f == cb.failures + 1 IN
    IF f >= FailureThreshold
    THEN [state |-> "open", failures |-> f, opened_at |-> t]
    ELSE [cb EXCEPT !.failures = f]

\* SimpleCircuitBreaker.allow_request (call_llm.py:54-65) at time t
allow_request(cb, t) ==
    CASE cb.state = "closed" -> [cb |-> cb, allowed |-> TRUE]
      [] cb.state = "open" ->
            IF t - cb.opened_at >= OpenDurationS
            THEN [cb |-> [cb EXCEPT !.state = "half_open"], allowed |-> TRUE]
            ELSE [cb |-> cb, allowed |-> FALSE]
      [] OTHER -> [cb |-> cb, allowed |-> TRUE]

Breaker == [state |-> cb_state, failures |-> cb_failures, opened_at |-> cb_opened_at]

SetBreaker(cb) ==
    /\ cb_state' = cb.state
    /\ cb_failures' = cb.failures
    /\ cb_opened_at' = cb.opened_at

\* Module load (call_llm.py:69-70): the limiter's window starts at the time
\* of construction, the breaker is closed.
WrapperVarsInit ==
    /\ now = 0
    /\ rl_window_start = 0
    /\ rl_count = 0
    /\ rl_accepts = 0
    /\ cb_state = "closed"
    /\ cb_failures = 0
    /\ cb_opened_at = 0
    /\ consecutive_failures = 0
    /\ calls = [c \in Callers |-> NoCall]

\* The clock advances.
Tick ==
    /\ now < MaxTime
    /\ now' = now + 1
    /\ UNCHANGED <<flowVars, storeVars, rl_window_start, rl_count, rl_accepts, cb_state,
                   cb_failures, cb_opened_at, consecutive_failures, calls>>

\* A thread enters call_llm (call_llm.py:73) and, in allow, reads the clock
\* before it takes the limiter's lock (call_llm.py:21).
CallLLM(c) ==
    /\ calls[c].pc = "idle"
    /\ calls' = [calls EXCEPT ![c] =
                    [NoCall EXCEPT !.pc = "allow", !.impl = "utils", !.now = now]]
    /\ UNCHANGED <<flowVars, storeVars, now, rl_window_start, rl_count, rl_accepts, cb_state,
                   cb_failures, cb_opened_at, consecutive_failures>>

\* Variant: a call the limiter rejects is recorded as a failure of the backend.
Allow_RecordsFailure(c) ==
    /\ calls[c].pc = "allow"
    /\ LET r == allow(rl_window_start, rl_count, calls[c].now) IN
          /\ rl_window_start' = r.window_start
          /\ rl_count' = r.count
          /\ rl_accepts' = (IF r.reset THEN 0 ELSE rl_accepts) + Count(r.allowed)
          /\ calls' = [calls EXCEPT ![c] =
                IF r.allowed
                THEN [@ EXCEPT !.pc = "allow_request", !.now = 0,
                               !.rate_ok = TRUE,
                               !.rl_seen = rl_count, !.rl_reset = r.reset]
                ELSE [@ EXCEPT !.pc = "idle", !.now = 0,
                               !.result = "rate_limited", !.raised = TRUE]]
    /\ IF allow(rl_window_start, rl_count, calls[c].now).allowed
       THEN UNCHANGED <<cb_state, cb_failures, cb_opened_at, consecutive_failures>>
       ELSE /\ SetBreaker(record_failure(Breaker, now))
            /\ consecutive_failures' = consecutive_failures + 1
    /\ UNCHANGED <<flowVars, storeVars, now>>

\* The limiter's critical section, then call_llm.py:81-82.
Allow(c) ==
    /\ calls[c].pc = "allow"
    /\ LET r == allow(rl_window_start, rl_count, calls[c].now) IN
          /\ rl_window_start' = r.window_start
          /\ rl_count' = r.count
          /\ rl_accepts' = (IF r.reset THEN 0 ELSE rl_accepts) + Count(r.allowed)
          /\ calls' = [calls EXCEPT ![c] =
                IF r.allowed
                THEN [@ EXCEPT !.pc = "allow_request", !.now = 0,
                               !.rate_ok = TRUE,
                               !.rl_seen = rl_count, !.rl_reset = r.reset]
                ELSE [@ EXCEPT !.pc = "idle", !.now = 0,
                               !.result = "rate_limited", !.raised = TRUE]]
    /\ UNCHANGED <<flowVars, storeVars, now, cb_state, cb_failures, cb_opened_at,
                   consecutive_failures>>

\* The breaker's admission check, then call_llm.py:84-85 or the backend call.
AllowRequest(c) ==
    /\ calls[c].pc = "allow_request"
    /\ LET r == allow_request(Breaker, now) IN
          /\ SetBreaker(r.cb)
          /\ calls' = [calls EXCEPT ![c] =
                IF r.allowed
                THEN [@ EXCEPT !.pc = "or_chat", !.breaker_ok = TRUE,
                               !.admitted_in = cb_state,
                               !.invoked = @ + 1,
                               !.rl_seen = 0, !.rl_reset = FALSE]
                ELSE [@ EXCEPT !.pc = "idle", !.result = "circuit_open",
                               !.raised = TRUE,
                               !.rl_seen = 0, !.rl_reset = FALSE]]
    /\ UNCHANGED <<flowVars, storeVars, now, rl_window_start, rl_count, rl_accepts,
                   consecutive_failures>>

\* Variant: a failed backend call is attempted again inside call_llm.
call_llm_except_Retry(call) ==
    [call EXCEPT !.pc = "allow"]

\* call_llm's except branch (call_llm.py:91-93): the exception is re-raised.
call_llm_except(call) ==
    [call EXCEPT !.pc = "idle", !.result = "backend_error", !.raised = TRUE,
                 !.admitted_in = "none"]

\* or_chat returns (call_llm.py:88-90).
OrChatReturns(c) ==
    /\ calls[c].pc = "or_chat" /\ calls[c].impl = "utils"
    /\ SetBreaker(record_success(Breaker))
    /\ consecutive_failures' = 0
    /\ calls' = [calls EXCEPT ![c] = [@ EXCEPT !.pc = "idle", !.result = "returned",
                                                 !.admitted_in = "none"]]
    /\ UNCHANGED <<flowVars, storeVars, now, rl_window_start, rl_count, rl_accepts>>

\* or_chat raises (call_llm.py:91-93).
OrChatRaises(c) ==
    /\ calls[c].pc = "or_chat" /\ calls[c].impl = "utils"
    /\ SetBreaker(record_failure(Breaker, now))
    /\ consecutive_failures' = consecutive_failures + 1
    /\ calls' = [calls EXCEPT ![c] = call_llm_except(@)]
    /\ UNCHANGED <<flowVars, storeVars, now, rl_window_start, rl_count, rl_accepts>>

\* pr_firm.utils.llm.call_llm (src/pr_firm/utils/llm/call_llm.py:24-95), the
\* function the packaged nodes import (src/pr_firm/nodes/__main__.py:14): the
\* backend is called with no admission check.
PackagedCallLLM(c) ==
    /\ calls[c].pc = "idle"
    /\ calls' = [calls EXCEPT ![c] =
                    [NoCall EXCEPT !.pc = "or_chat", !.impl = "pr_firm",
                                   !.invoked = 1]]
    /\ UNCHANGED <<flowVars, storeVars, now, rl_window_start, rl_count, rl_accepts, cb_state,
                   cb_failures, cb_opened_at, consecutive_failures>>

\* The packaged call ends: the text is returned or the client's error raised.
PackagedCallEnds(c) ==
    /\ calls[c].pc = "or_chat" /\ calls[c].impl = "pr_firm"
    /\ \E ok \in BOOLEAN :
          calls' = [calls EXCEPT ![c] =
                      IF ok THEN [@ EXCEPT !.pc = "idle", !.result = "returned"]
                      ELSE [@ EXCEPT !.pc = "idle", !.result = "backend_error",
                                     !.raised = TRUE]]
    /\ UNCHANGED <<flowVars, storeVars, now, rl_window_start, rl_count, rl_accepts, cb_state,
                   cb_failures, cb_opened_at, consecutive_failures>>

\* ------------------------------------------------------------ shared store
\* src/pr_firm/core/shared_store.py. A dict is a function from the keys it
\* holds; a string that is parsed is a sequence of characters.
Alphabet == {"r", "R", "/", " "}
WordChars == {"r", "R"}

Strings == UNION {[1..n -> Alphabet] : n \in 0..MaxLen}

\* str.lower on the characters of the alphabet
lower(s) == [i \in 1..Len(s) |-> IF s[i] = "R" THEN "r" ELSE s[i]]

\* str.strip
RECURSIVE lstrip(_)
lstrip(s) == IF s # <<>> /\ Head(s) = " " THEN lstrip(Tail(s)) ELSE s

RECURSIVE rstrip(_)
rstrip(s) ==
    IF s # <<>> /\ s[Len(s)] = " " THEN rstrip(SubSeq(s, 1, Len(s) - 1)) ELSE s

strip(s) == rstrip(lstrip(s))

\* s holds "r/" (either case) at position i
HasRSlash(s, i) ==
    /\ i >= 1 /\ i + 1 <= Len(s)
    /\ s[i] \in {"r", "R"} /\ s[i + 1] = "/"

\* Position of the name when the pattern (?:^|/)r/([A-Za-z0-9_]+) matches
\* starting at position i, 0 when it does not (input_normalize.py:10; the
\* inputs hold no URL scheme, so the optional URL prefix matches nothing).
NameAt(s, i) ==
    IF i = 1 /\ HasRSlash(s, 1) /\ Len(s) >= 3 /\ s[3] \in WordChars THEN 3
    ELSE IF /\ s[i] = "/" /\ HasRSlash(s, i + 1)
            /\ Len(s) >= i + 3 /\ s[i + 3] \in WordChars THEN i + 3
    ELSE 0

\* The longest run of name characters of s from position j on.
RECURSIVE NameFrom(_, _)
NameFrom(s, j) ==
    IF j <= Len(s) /\ s[j] \in WordChars
    THEN <<s[j]>> \o NameFrom(s, j + 1)
    ELSE <<>>

\* normalize_subreddit (utils/helpers/input_normalize.py:4-16)
normalize_subreddit(raw) ==
    LET s == strip(raw)
        starts == {i \in 1..Len(s) : NameAt(s, i) # 0}
    IN IF s = <<>> THEN <<>>
       ELSE IF starts # {}
       THEN LET i == CHOOSE k \in starts : \A m \in starts : k <= m
            IN lower(NameFrom(s, NameAt(s, i)))
       ELSE lower(IF HasRSlash(s, 1) THEN SubSeq(s, 3, Len(s))
                  ELSE IF s[1] = "/" /\ HasRSlash(s, 2) THEN SubSeq(s, 4, Len(s))
                  ELSE s)

\* dict.setdefault(k, v)
setdefault(d, k, v) == IF k \in DOMAIN d THEN d ELSE (k :> v) @@ d

\* dict.get(k, default)
get(d, k, default) == IF k \in DOMAIN d THEN d[k] ELSE default

EmptyDict == [k \in {} |-> <<>>]
EmptyStrDict == [k \in {} |-> ""]
EmptyPresets == [c \in {"brand_bibles", "email_sigs", "blog_styles"} |-> EmptyStrDict]

\* Top-level keys whose default is set and never looked into again
\* (shared_store.py:42-67, 70).
PlainKeys == {"reddit", "platform_nuance", "platform_guidelines", "content_pieces",
              "style_compliance", "workflow_state", "final_campaign", "llm"}

\* The default values of shared_store.py:15-40; None is <<None>> where the
\* other values are sequences.
DefaultConfig == "style_policy" :> "strict"
DefaultTaskRequirements ==
    ("platforms" :> <<"email", "linkedin">>) @@
    ("subreddit_name_or_title" :> <<None>>)
DefaultBrandBible == "xml_raw" :> "brand_xml"
DefaultHouseStyle ==
    ("email_signature" :> ("content" :> "Best, Acme Team")) @@
    ("blog_style" :> ("content" :> "title_case"))

\* Truth value of a sequence-valued entry: None and the empty string are false.
Truthy(v) == v # <<>> /\ v # <<None>>

RECURSIVE SetDefaults(_, _)
SetDefaults(d, keys) ==
    IF keys = {} THEN d
    ELSE LET k == CHOOSE x \in keys : TRUE
         IN SetDefaults(setdefault(d, k, "default"), keys \ {k})

\* shared_store.py:15-70: the top-level defaults; a missing or None stream
\* becomes a new Stream object, the n-th object created being n.
WithDefaults(d, new_stream) ==
    LET d1 == setdefault(d, "config", DefaultConfig)
        d2 == setdefault(d1, "task_requirements", DefaultTaskRequirements)
        d3 == setdefault(d2, "brand_bible", DefaultBrandBible)
        d4 == setdefault(d3, "house_style", DefaultHouseStyle)
        d5 == SetDefaults(d4, PlainKeys)
    IN IF "stream" \notin DOMAIN d5 \/ d5["stream"] = 0
       THEN ("stream" :> new_stream) @@ d5
       ELSE d5

\* shared_store.py:73-78, 83-87, 91-95: an entry with a name and no content
\* takes the content of the preset stored under that name.
LoadPreset(entry, name_key, content_key, stored) ==
    LET name == get(entry, name_key, "") IN
    IF /\ name # "" /\ get(entry, content_key, "") = ""
       /\ name \in DOMAIN stored /\ stored[name] # ""
    THEN (content_key :> stored[name]) @@ entry
    ELSE entry

\* shared_store.py:80-81, 88-89, 96-97: an entry marked save_as_preset with
\* a name and a content is stored under its name.
SavePreset(entry, name_key, content_key, stored) ==
    IF /\ get(entry, "save_as_preset", "") # ""
       /\ get(entry, name_key, "") # "" /\ get(entry, content_key, "") # ""
    THEN (entry[name_key] :> entry[content_key]) @@ stored
    ELSE stored

\* shared_store.py:83, 91: shared.get("house_style", {}).get(part, {}); the
\* loaded content is written only when that entry is in the store.
HouseStylePart(d, part, content) ==
    LET hs == d["house_style"] IN
    IF part \in DOMAIN hs
    THEN LET e == LoadPreset(hs[part], "name", "content", content)
         IN (("house_style" :> ((part :> e) @@ hs)) @@ d)
    ELSE d

\* shared_store.py:99-102
NormalizeSubreddit(d) ==
    LET tr == d["task_requirements"]
        sr == get(tr, "subreddit_name_or_title", <<>>)
    IN IF Truthy(sr)
       THEN ("task_requirements" :>
                (("subreddit_name_or_title" :> normalize_subreddit(sr)) @@ tr)) @@ d
       ELSE d

\* initialize_shared_store (shared_store.py:13-102) on record d with the
\* presets file p: the record and the presets file it leaves.
initialize_shared_store(d, p, new_stream) ==
    LET d1 == WithDefaults(d, new_stream)
        bb == LoadPreset(d1["brand_bible"], "preset_name", "xml_raw", p["brand_bibles"])
        d2 == ("brand_bible" :> bb) @@ d1
        p1 == [p EXCEPT !["brand_bibles"] = SavePreset(bb, "preset_name", "xml_raw", @)]
        d3 == HouseStylePart(d2, "email_signature", p1["email_sigs"])
        p2 == [p1 EXCEPT !["email_sigs"] =
                  SavePreset(get(d3["house_style"], "email_signature", EmptyStrDict),
                             "name", "content", @)]
        d4 == HouseStylePart(d3, "blog_style", p2["blog_styles"])
        p3 == [p2 EXCEPT !["blog_styles"] =
                  SavePreset(get(d4["house_style"], "blog_style", EmptyStrDict),
                             "name", "content", @)]
    IN [shared |-> NormalizeSubreddit(d4), presets |-> p3]

\* Records the caller passes in.
CallerConfigs == {"existing_setting" :> "true", "style_policy" :> "lenient"}
CallerTaskRequirements ==
    {"existing_platform" :> <<"custom">>}
    \cup {"subreddit_name_or_title" :> s : s \in Strings}
CallerBrandBibles ==
    {"preset_name" :> "p",
     ("preset_name" :> "p") @@ ("xml_raw" :> "x") @@ ("save_as_preset" :> "true")}
CallerHouseStyles ==
    {"email_signature" :> ("name" :> "p"),
     "blog_style" :> (("name" :> "p") @@ ("content" :> "c")
                        @@ ("save_as_preset" :> "true"))}
CallerStreams == {0, 1}
CallerPresets == {EmptyPresets,
                  [c \in {"brand_bibles", "email_sigs", "blog_styles"} |->
                      "p" :> "stored"]}

\* Adds key k with value v to d unless v is the marker for a missing key.
Given(d, k, v, missing) == IF v = missing THEN d ELSE (k :> v) @@ d

InitialRecords ==
    {Given(Given(Given(Given(Given(Given(EmptyDict,
        "config", c, EmptyStrDict),
        "task_requirements", t, EmptyDict),
        "brand_bible", b, EmptyStrDict),
        "house_style", h, EmptyDict),
        "stream", st, 2),
        "llm", l, "") :
     c \in CallerConfigs \cup {EmptyStrDict},
     t \in CallerTaskRequirements \cup {EmptyDict},
     b \in CallerBrandBibles \cup {EmptyStrDict},
     h \in CallerHouseStyles \cup {EmptyDict},
     st \in CallerStreams \cup {2},
     l \in {"caller", ""}}

\* main() passes an empty record (main.py:19) and no Stream exists yet.
StoreVarsInit ==
    /\ shared = EmptyDict
    /\ initial_shared = EmptyDict
    /\ shared_once = EmptyDict
    /\ presets = EmptyPresets
    /\ runs = 0
    /\ streams = 1

\* One call of initialize_shared_store on the record.
InitializeSharedStore ==
    /\ runs < MaxRuns
    /\ LET r == initialize_shared_store(shared, presets, streams + 1) IN
          /\ shared' = r.shared
          /\ presets' = r.presets
          /\ streams' = IF "stream" \in DOMAIN shared /\ shared["stream"] # 0
                        THEN streams ELSE streams + 1
          /\ shared_once' = IF runs = 0 THEN r.shared ELSE shared_once
    /\ runs' = runs + 1
    /\ UNCHANGED <<initial_shared, flowVars, wrapperVars>>

Init == FlowInit /\ WrapperVarsInit /\ StoreVarsInit

Next ==
    \/ EngagementManagerNode
    \/ BrandBibleIngestNode
    \/ VoiceAlignmentNode
    \/ FormatGuidelinesBatchPrep
    \/ FormatGuidelinesRouter
    \/ GuidelinesNode
    \/ FormatGuidelinesBatchPost
    \/ ContentCraftsmanNode
    \/ StyleEditorNode
    \/ StyleComplianceNode
    \/ EditCycleReportNode
    \/ FactValidatorNode
    \/ BrandGuardianNode
    \/ AuthenticityAuditorNode
    \/ AgencyDirectorNode

Spec == Init /\ [][Next]_vars

\* The engine's loop runs the node it is at for as long as there is one, and
\* every prep, exec, post and backend call returns or raises: a step that is
\* possible is eventually taken.
FairSpec == Spec /\ WF_vars(Next)

\* Threads calling the wrapper while the clock runs; the flow is at rest.
WrapperInit ==
    /\ Init
    /\ ~task_requirements.present

WrapperNext ==
    \/ Tick
    \/ \E c \in Callers : CallLLM(c)
    \/ \E c \in Callers : Allow(c)
    \/ \E c \in Callers : AllowRequest(c)
    \/ \E c \in Callers : OrChatReturns(c)
    \/ \E c \in Callers : OrChatRaises(c)
    \/ \E c \in Callers : PackagedCallLLM(c)
    \/ \E c \in Callers : PackagedCallEnds(c)

WrapperSpec == WrapperInit /\ [][WrapperNext]_vars

\* initialize_shared_store called repeatedly on a record a caller passes in;
\* the flow and the wrapper are at rest.
StoreInit ==
    /\ FlowInit /\ ~task_requirements.present
    /\ WrapperVarsInit
    /\ shared \in InitialRecords
    /\ initial_shared = shared
    /\ shared_once = shared
    /\ presets \in CallerPresets
    /\ runs = 0
    /\ streams = 1

StoreNext == InitializeSharedStore

StoreSpec == StoreInit /\ [][StoreNext]_vars

\* ------------------------------------------------------------------ claims
CheckJustRan == last_node = "StyleComplianceNode"
\* Some draft checked by the latest compliance check has a violation
\* (content_pieces is not written by the check, so it still holds the drafts).
DraftsViolate == \E p \in DOMAIN content_pieces : HasPattern(content_pieces[p])

\* C1: in a run (revision_count starts at 0) the style-compliance stage is
\* executed at most THRESHOLD + 1 = 6 times, whatever the compliance results.
C1_ComplianceVisitsBounded == Len(compliance_log) <= THRESHOLD + 1

C1_Witness ==
    /\ Len(compliance_log) = THRESHOLD
    /\ violation_checks = THRESHOLD
    /\ status = "done"

\* C2: five consecutive checks that find violations return revise, revise,
\* revise, revise, max_revisions; after the fifth manual_review_required is
\* true and the next stage is EditCycleReportNode.
C2_FiveViolations ==
    (CheckJustRan /\ Len(compliance_log) = 5 /\ violation_checks = 5)
        => /\ compliance_log = <<"revise", "revise", "revise", "revise", "max_revisions">>
           /\ workflow_state.manual_review_required
           /\ curr = "EditCycleReportNode"

C2_Witness ==
    /\ CheckJustRan /\ Len(compliance_log) = 5 /\ violation_checks = 5
    /\ curr = "EditCycleReportNode"

\* C3 as stated: a check that finds a violation with revision_count < 5 on
\* entry increments the count, returns revise and the editor runs next.
C3_Original ==
    (CheckJustRan /\ DraftsViolate /\ last_check.entry_rev < THRESHOLD)
        => /\ workflow_state.revision_count = last_check.entry_rev + 1
           /\ last_action = "revise"
           /\ curr = "StyleEditorNode"

\* C3 amended: a check that finds a violation with revision_count < 4 on
\* entry increments the count, returns revise and the editor runs next; with
\* revision_count = 4 on entry it increments the count to 5 and escalates.
C3_ReviseBelowThreshold ==
    /\ (CheckJustRan /\ DraftsViolate /\ last_check.entry_rev < THRESHOLD - 1)
          => /\ workflow_state.revision_count = last_check.entry_rev + 1
             /\ last_action = "revise"
             /\ curr = "StyleEditorNode"
    /\ (CheckJustRan /\ DraftsViolate /\ last_check.entry_rev = THRESHOLD - 1)
          => /\ workflow_state.revision_count = THRESHOLD
             /\ last_action = "max_revisions"
             /\ curr # "StyleEditorNode"

C3_Witness ==
    /\ CheckJustRan /\ DraftsViolate
    /\ last_check.entry_rev = THRESHOLD - 2
    /\ last_action = "revise"

\* C4: a check that finds violations when the count reaches the threshold
\* returns max_revisions, sets manual_review_required, stores the edit-cycle
\* report, sets current_stage to edit_cycle_report and the report stage runs
\* next, whichever platforms still have violations.
C4_Escalation ==
    (CheckJustRan /\ DraftsViolate /\ last_check.entry_rev + 1 >= THRESHOLD)
        => /\ last_action = "max_revisions"
           /\ workflow_state.manual_review_required
           /\ final_campaign.edit_cycle_report.present
           /\ workflow_state.current_stage = "edit_cycle_report"
           /\ curr = "EditCycleReportNode"

\* The escalating check ran with one platform clean and another violating.
C4_Witness ==
    /\ CheckJustRan /\ last_check.entry_rev + 1 >= THRESHOLD
    /\ \E p, q \in DOMAIN content_pieces :
          HasPattern(content_pieces[p]) /\ ~HasPattern(content_pieces[q])
    /\ last_action = "max_revisions"

C6_RevisionCountMonotonic ==
    [][/\ workflow_state'.revision_count >= workflow_state.revision_count
       /\ (workflow_state'.revision_count # workflow_state.revision_count)
             => /\ curr = "StyleComplianceNode"
                /\ workflow_state'.revision_count = workflow_state.revision_count + 1
       /\ (curr = "StyleComplianceNode" /\ last_node' = "StyleComplianceNode"
              /\ last_action' = "revise")
             => workflow_state'.revision_count = workflow_state.revision_count + 1]_vars

\* A pass stored after the count had been raised twice.
C6_Witness ==
    /\ CheckJustRan /\ last_action = "pass"
    /\ workflow_state.revision_count = 2

IsPrefix(s, t) == Len(s) <= Len(t) /\ \A i \in 1..Len(s) : s[i] = t[i]

\* C7: in every step completed_stages before the step is a prefix of
\* completed_stages after it.
C7_CompletedStagesAppendOnly ==
    [][IsPrefix(workflow_state.completed_stages,
                workflow_state'.completed_stages)]_vars

\* Second visit of the compliance stage recorded, after the batch.
C7_Witness ==
    /\ Len(compliance_log) = 2
    /\ CheckJustRan
    /\ Len(SelectSeq(workflow_state.completed_stages,
                     LAMBDA x : x = "style_compliance")) = 2
    /\ Len(SelectSeq(workflow_state.completed_stages,
                     LAMBDA x : x = "guidelines")) = 1

BatchDone == \E i \in 1..Len(workflow_state.completed_stages) :
                 workflow_state.completed_stages[i] = "guidelines"

\* C8: after the batch has run over a list P of distinct names the router
\* has an edge for, the key set of platform_guidelines is exactly P.
C8_GuidelineKeysAreRequested ==
    (BatchDone /\ Range(task_requirements.platforms) \subseteq RouterPlatforms)
        => DOMAIN platform_guidelines = Range(task_requirements.platforms)

\* C9: iterations for two different requested platforms never write the
\* same platform_guidelines key; every key is written exactly once.
C9_DisjointGuidelineWrites ==
    \A i, j \in 1..Len(guideline_writes) :
        (i # j) => guideline_writes[i].key # guideline_writes[j].key

\* C10: a run over [email, linkedin] whose first compliance check finds no
\* violation and whose calls all succeed ends with guidelines, content and
\* approved_content for exactly {email, linkedin}, current_stage = done,
\* revision_count = 0 and manual_review_required = false.
C10_EndToEnd ==
    (/\ status = "done"
     /\ task_requirements.platforms = <<"email", "linkedin">>
     /\ violation_checks = 0)
        => /\ DOMAIN platform_guidelines = {"email", "linkedin"}
           /\ DOMAIN content_pieces = {"email", "linkedin"}
           /\ DOMAIN final_campaign.approved_content = {"email", "linkedin"}
           /\ DOMAIN final_campaign.guidelines = {"email", "linkedin"}
           /\ workflow_state.current_stage = "done"
           /\ workflow_state.revision_count = 0
           /\ ~workflow_state.manual_review_required

C10_Witness ==
    /\ status = "done"
    /\ task_requirements.platforms = <<"email", "linkedin">>
    /\ violation_checks = 0
    /\ final_campaign.packaged

\* --------------------------------------------- claims: resilience wrapper
\* Thread c leaves the limiter's critical section in this step.
LimiterStep(c) == calls[c].pc = "allow" /\ calls'[c].pc # "allow"
\* Thread c leaves the breaker's admission check in this step.
BreakerStep(c) == calls[c].pc = "allow_request" /\ calls'[c].pc # "allow_request"
\* Thread c's backend call ends in this step with the given result.
BackendEnds(c, res) == calls[c].pc = "or_chat" /\ calls'[c].result = res

Rejected(call, res) ==
    /\ call.pc = "idle" /\ call.result = res
    /\ call.raised /\ call.invoked = 0

\* C11: under every interleaving of the callers the limiter's count, and the
\* number of calls accepted since the window started, never exceed max_calls;
\* a call that finds the window active and full is rejected in the very step
\* it takes the lock, raising without having invoked the backend.
C11_RateLimit ==
    [][/\ rl_count' <= MaxCalls
       /\ rl_accepts' <= MaxCalls
       /\ \A c \in Callers :
             (/\ LimiterStep(c)
              /\ calls[c].now - rl_window_start < PeriodS
              /\ rl_count >= MaxCalls)
             => Rejected(calls'[c], "rate_limited")]_vars

\* A call was rejected by a full window while another thread's accepted call
\* is still at the backend.
C11_Witness ==
    \E c, d \in Callers :
        /\ c # d
        /\ Rejected(calls[c], "rate_limited")
        /\ calls[d].pc = "or_chat" /\ calls[d].rate_ok
        /\ rl_count = MaxCalls /\ rl_accepts = MaxCalls

\* C12: a call whose clock reading is at least period_s past the window start
\* starts a new window at that reading, is counted as its first call and is
\* accepted, whatever the count of the previous window was.
C12_WindowReset ==
    [][\A c \in Callers :
          (LimiterStep(c) /\ calls[c].now - rl_window_start >= PeriodS)
          => /\ rl_window_start' = calls[c].now
             /\ rl_count' = 1
             /\ calls'[c].pc = "allow_request"
             /\ calls'[c].rate_ok]_vars

\* A call was accepted by resetting a window that was exhausted.
C12_Witness ==
    \E c \in Callers :
        /\ calls[c].pc = "allow_request"
        /\ calls[c].rl_reset /\ calls[c].rl_seen = MaxCalls
        /\ rl_count = 1 /\ rl_window_start > 0

\* C13: while the breaker is closed every call that reaches it is passed to
\* the backend; it leaves closed only to open, exactly in the step that
\* records the failure_threshold-th failure since the last success, and that
\* step stores the current time as the opening time; a recorded success
\* leaves the failure count at zero.
C13_ClosedToOpen ==
    [][cb_state = "closed" =>
          /\ cb_state' \in {"closed", "open"}
          /\ cb_state' = "open" <=>
                /\ consecutive_failures' = consecutive_failures + 1
                /\ consecutive_failures' = FailureThreshold
          /\ cb_state' = "open" => cb_opened_at' = now
          /\ (\E c \in Callers : BackendEnds(c, "returned") /\ calls[c].impl = "utils")
                => cb_failures' = 0
          /\ \A c \in Callers :
                BreakerStep(c) => calls'[c].pc = "or_chat" /\ calls'[c].invoked = 1
      ]_vars

\* The breaker has just opened on the failure_threshold-th consecutive
\* failure, later than the start of the clock.
C13_Witness ==
    /\ cb_state = "open"
    /\ consecutive_failures = FailureThreshold
    /\ cb_opened_at = now /\ now > 0
    /\ \E c \in Callers : calls[c].result = "backend_error"

\* C14: while the breaker is open and less than open_duration_s has passed
\* since it opened, every call that reaches it is rejected without invoking
\* the backend, and the breaker leaves open only by the timer's transition
\* to half_open.
C14_OpenHolds ==
    [][cb_state = "open" =>
          /\ cb_state' # "open" =>
                /\ cb_state' = "half_open"
                /\ now - cb_opened_at >= OpenDurationS
          /\ \A c \in Callers :
                (BreakerStep(c) /\ now - cb_opened_at < OpenDurationS)
                => Rejected(calls'[c], "circuit_open")
      ]_vars

\* C15: a call reaching the open breaker once open_duration_s has passed is
\* let through as the trial and the breaker becomes half_open; when the trial
\* returns the breaker is closed with the failure count at zero, and when it
\* fails the breaker is open with the opening time set to the current time.
C15_HalfOpenTrial ==
    [][\A c \in Callers :
          /\ (/\ BreakerStep(c) /\ cb_state = "open"
              /\ now - cb_opened_at >= OpenDurationS)
             => calls'[c].pc = "or_chat" /\ cb_state' = "half_open"
          /\ (calls[c].admitted_in = "open" /\ BackendEnds(c, "returned"))
             => cb_state' = "closed" /\ cb_failures' = 0
          /\ (calls[c].admitted_in = "open" /\ BackendEnds(c, "backend_error"))
             => cb_state' = "open" /\ cb_opened_at' = now
      ]_vars

\* C16: while a trial call is at the backend no other call admitted in
\* half_open is at the backend.
C16_SingleTrial ==
    \A c, d \in Callers :
        ~(/\ c # d
          /\ calls[c].pc = "or_chat" /\ calls[c].admitted_in = "open"
          /\ calls[d].pc = "or_chat" /\ calls[d].admitted_in = "half_open")

\* C17: one invocation of call_llm invokes the backend at most once, a
\* rejected invocation not at all, and a rejection by the limiter, a
\* rejection by the breaker and a backend failure each end the invocation by
\* raising.
C17_NoInternalRetry ==
    \A c \in Callers :
        /\ calls[c].invoked <= 1
        /\ calls[c].result \in {"rate_limited", "circuit_open"}
              => Rejected(calls[c], calls[c].result)
        /\ calls[c].result = "backend_error"
              => calls[c].pc = "idle" /\ calls[c].raised /\ calls[c].invoked = 1
        /\ calls[c].raised => calls[c].result # "returned"

\* Invocations of the wrapper have ended in each of the three ways of
\* failing: one thread's backend call failed and opened the breaker, the
\* other was rejected by the open breaker.
C17_Witness ==
    \E c, d \in Callers :
        /\ calls[c].impl = "utils" /\ calls[c].result = "backend_error"
        /\ calls[c].invoked = 1 /\ calls[c].raised
        /\ Rejected(calls[d], "circuit_open")

\* C18: no thread is at the backend without having been admitted by the
\* limiter and by the breaker.
C18_EveryCallAdmitted ==
    \A c \in Callers :
        calls[c].pc = "or_chat" => calls[c].rate_ok /\ calls[c].breaker_ok

\* ---------------------------------------- claims: routing and exec failure
\* C19: a run in which the router returned an action without an edge does
\* not end as successful.
C19_UnroutedRunNotSuccessful ==
    status = "done" =>
        \A i \in 1..Len(task_requirements.platforms) :
            get_next_node("FormatGuidelinesRouter",
                FormatGuidelinesRouterPost(task_requirements.platforms[i])) # None

\* C20: a step that ends the run as failed made every attempt the failing
\* node is built with (two for ContentCraftsmanNode and StyleEditorNode),
\* leaves the engine at the failing node without running its post, and
\* changes nothing in the shared store; no step follows it.
C20_ExecFailure ==
    [][/\ status # "failed"
       /\ status' = "failed" =>
             /\ attempts' = IF curr \in {"ContentCraftsmanNode", "StyleEditorNode"}
                            THEN 2 ELSE 1
             /\ UNCHANGED <<curr, last_node, last_action>>
             /\ UNCHANGED sharedVars
      ]_vars

\* The style editor failed on its second attempt: the drafts and the stages
\* completed before it are in the store, its own stage is not.
C20_Witness ==
    /\ status = "failed" /\ curr = "StyleEditorNode" /\ attempts = 2
    /\ last_node = "ContentCraftsmanNode"
    /\ DOMAIN content_pieces # {}
    /\ "content_craftsman" \in Range(workflow_state.completed_stages)
    /\ "style_editor" \notin Range(workflow_state.completed_stages)
    /\ workflow_state.current_stage = "style_editor"

\* ----------------------------------------------------- claims: shared store
\* C21: a second call of initialize_shared_store leaves the record as the
\* first call left it: the same keys, the same values, the same Stream object.
C21_Idempotent == runs >= 2 => shared = shared_once

\* C22: after initialize_shared_store a config or task_requirements entry the
\* caller passed in keeps its own sub-keys and holds the default sub-keys it
\* lacked: config.style_policy = strict, task_requirements.platforms present.
C22_MergesDefaults ==
    runs >= 1 =>
        /\ "config" \in DOMAIN initial_shared =>
              /\ \A k \in DOMAIN initial_shared["config"] :
                    /\ k \in DOMAIN shared["config"]
                    /\ shared["config"][k] = initial_shared["config"][k]
              /\ "style_policy" \in DOMAIN shared["config"]
              /\ "style_policy" \notin DOMAIN initial_shared["config"]
                    => shared["config"]["style_policy"] = "strict"
        /\ "task_requirements" \in DOMAIN initial_shared =>
              /\ \A k \in DOMAIN initial_shared["task_requirements"] :
                    k \in DOMAIN shared["task_requirements"]
              /\ "platforms" \in DOMAIN shared["task_requirements"]

\* ------------------------------------------------ claims: flow, continued
\* C23: every run ends: it fails, or it reaches the end of the flow with
\* current_stage = done.
C23_Terminates ==
    <>(\/ status = "failed"
       \/ status = "done" /\ workflow_state.current_stage = "done")

\* A run whose editor / compliance cycle was ended by revision_count has
\* reached done.
C23_Witness ==
    /\ status = "done" /\ workflow_state.current_stage = "done"
    /\ workflow_state.revision_count = THRESHOLD
    /\ Len(compliance_log) = THRESHOLD

\* Every finding of the latest compliance check is soft: no draft has a hard
\* pattern and some draft has a soft one.
OnlySoftFindings ==
    /\ \A p \in DOMAIN content_pieces :
          \A i \in 1..Len(check_style_violations(content_pieces[p]).violations) :
              check_style_violations(content_pieces[p]).violations[i].severity = "soft"
    /\ DraftsViolate

\* C24: a compliance check all of whose findings are soft returns pass and
\* leaves revision_count as it was.
C24_SoftDoesNotGate ==
    (CheckJustRan /\ OnlySoftFindings)
        => /\ last_action = "pass"
           /\ workflow_state.revision_count = last_check.entry_rev

\* The name each top-level node's post appends to completed_stages; done
\* for the end of the flow.
stage_name(n) ==
    CASE n = "EngagementManagerNode"   -> "engagement"
      [] n = "BrandBibleIngestNode"    -> "brand_bible_ingest"
      [] n = "VoiceAlignmentNode"      -> "voice_alignment"
      [] n = "FormatGuidelinesBatch"   -> "guidelines"
      [] n = "ContentCraftsmanNode"    -> "content_craftsman"
      [] n = "StyleEditorNode"         -> "style_editor"
      [] n = "StyleComplianceNode"     -> "style_compliance"
      [] n = "EditCycleReportNode"     -> "edit_cycle_report"
      [] n = "FactValidatorNode"       -> "fact_validator"
      [] n = "BrandGuardianNode"       -> "brand_guardian"
      [] n = "AuthenticityAuditorNode" -> "authenticity_auditor"
      [] n = "AgencyDirectorNode"      -> "agency_director"
      [] n = None                      -> "done"

RECURSIVE EditCycles(_)
EditCycles(k) ==
    IF k = 0 THEN <<>> ELSE <<"style_editor", "style_compliance">> \o EditCycles(k - 1)

Occurrences(s, x) == Cardinality({i \in 1..Len(s) : s[i] = x})

\* C26: in a run that ended as done completed_stages is the five opening
\* stages, one (style_editor, style_compliance) pair per compliance check
\* and at least one, edit_cycle_report exactly when the last check returned
\* max_revisions, then the four closing stages; guidelines occurs once.
C26_StageOrder ==
    status = "done" =>
        /\ Len(compliance_log) >= 1
        /\ workflow_state.completed_stages =
              <<"engagement", "brand_bible_ingest", "voice_alignment",
                "guidelines", "content_craftsman">>
              \o EditCycles(Len(compliance_log))
              \o (IF compliance_log[Len(compliance_log)] = "max_revisions"
                    THEN <<"edit_cycle_report">> ELSE <<>>)
              \o <<"fact_validator", "brand_guardian", "authenticity_auditor",
                    "agency_director">>
        /\ Occurrences(workflow_state.completed_stages, "guidelines") = 1

\* A successful run for two platforms with two editing cycles and no
\* escalation, and so without the report stage.
C26_Witness ==
    /\ status = "done"
    /\ Len(task_requirements.platforms) = 2
    /\ Len(guideline_writes) = 2
    /\ Len(compliance_log) = 2
    /\ "edit_cycle_report" \notin Range(workflow_state.completed_stages)

\* C27: once a top-level node has run, current_stage names the node the
\* engine is at (done when there is none).
C27_CurrentStageIsNext ==
    last_node # None => workflow_state.current_stage = stage_name(curr)

\* The check has returned revise: current_stage is style_editor and the
\* engine is at the style editor.
C27_Witness ==
    /\ CheckJustRan /\ last_action = "revise"
    /\ workflow_state.current_stage = "style_editor"
    /\ curr = "StyleEditorNode" /\ status = "running"

\* C28: manual_review_required changes only from false to true and only in
\* the compliance check that returns max_revisions; while it is true the
\* engine is never at the style editor or the compliance check again but at
\* the report stage, a validator, the director or the end; and a run that
\* ends as done with it set has revision_count = 5 = the number of checks
\* that found violations, with the report stage completed.
C28_EscalationFinal ==
    [][/\ workflow_state'.manual_review_required # workflow_state.manual_review_required
             => /\ workflow_state'.manual_review_required
                /\ curr = "StyleComplianceNode"
                /\ last_action' = "max_revisions"
       /\ workflow_state'.manual_review_required
             => /\ curr' \in {"EditCycleReportNode", "FactValidatorNode",
                              "BrandGuardianNode", "AuthenticityAuditorNode",
                              "AgencyDirectorNode", None}
                /\ compliance_log'[Len(compliance_log')] = "max_revisions"
       /\ (workflow_state'.manual_review_required /\ status' = "done")
             => /\ workflow_state'.revision_count = THRESHOLD
                /\ violation_checks' = THRESHOLD
                /\ workflow_state'.current_stage = "done"
                /\ "edit_cycle_report" \in Range(workflow_state'.completed_stages)
      ]_vars

\* An escalated run has ended as done.
C28_Witness ==
    /\ status = "done"
    /\ workflow_state.manual_review_required
    /\ workflow_state.revision_count = THRESHOLD
    /\ final_campaign.packaged

\* --------------------------------- claims: resilience wrapper, continued
\* C25: the breaker's opening time changes only in a step that takes the
\* breaker from closed or half_open to open; a failure recorded while the
\* breaker is open leaves it as it was.
C25_OpenedAtOnlyOnEntry ==
    [][cb_opened_at' # cb_opened_at
          => cb_state \in {"closed", "half_open"} /\ cb_state' = "open"]_vars

\* C29: the limiter is consulted before the breaker. A call the limiter
\* rejects leaves the breaker's state, count and opening time as they were;
\* a call reaches the breaker only after the limiter has counted it, and a
\* call the breaker rejects keeps its place in the window; a rejection by
\* the breaker changes neither the breaker's state nor its count.
C29_LimiterBeforeBreaker ==
    [][\A c \in Callers :
          /\ LimiterStep(c)
                => /\ UNCHANGED <<cb_state, cb_failures, cb_opened_at,
                                  consecutive_failures>>
                   /\ calls'[c].pc = "allow_request"
                         => /\ rl_count' >= 1
                            /\ rl_count' = IF calls'[c].rl_reset THEN 1
                                           ELSE rl_count + 1
          /\ BreakerStep(c) => calls[c].rate_ok
          /\ (BreakerStep(c) /\ calls'[c].result = "circuit_open")
                => /\ UNCHANGED <<rl_count, rl_window_start, rl_accepts>>
                   /\ UNCHANGED <<cb_state, cb_failures, cb_opened_at,
                                  consecutive_failures>>
      ]_vars

\* One thread's call was rejected by the limiter and the other's by the open
\* breaker, after the limiter had counted it in the window that is full now.
C29_Witness ==
    \E c, d \in Callers :
        /\ Rejected(calls[c], "rate_limited")
        /\ Rejected(calls[d], "circuit_open") /\ calls[d].rate_ok
        /\ cb_state = "open" /\ cb_failures = FailureThreshold
        /\ rl_count = MaxCalls

\* C30: the breaker's state and count agree in every reachable state:
\* closed with fewer than failure_threshold failures, open or half_open with
\* at least failure_threshold.
C30_StateCounterAgree ==
    /\ cb_state = "closed" => cb_failures < FailureThreshold
    /\ cb_state \in {"open", "half_open"} => cb_failures >= FailureThreshold

\* The breaker is half_open with more failures counted than the threshold:
\* a failure was recorded while it was open.
C30_Witness ==
    /\ cb_state = "half_open"
    /\ cb_failures > FailureThreshold
    /\ \E c \in Callers : calls[c].pc = "or_chat" /\ calls[c].admitted_in = "open"

====
